---- MODULE Spec2Model ----
(***************************************************************************)
(* A model of src/train.py: the two training drivers                       *)
(*   train(model, train_loader, iters, loss_cbs, eval_cbs, save_every)     *)
(*   train_cl(model, train_datasets, replay_mode, scenario, ...)           *)
(* and the replay-curation step of train_cl (lines 289-434).               *)
(*                                                                         *)
(* Python objects live in a heap (object id -> state), so that deepcopy    *)
(* and aliasing are what the code makes them.  The parameters of a network *)
(* are abstracted to the number of optimiser steps applied to them.        *)
(* Lists are sequences; Python's 0-based positions are kept in the values  *)
(* (class labels, task ids) and shifted by one only where a sequence is    *)
(* indexed.                                                                *)
(***************************************************************************)
EXTENDS Integers, Sequences, FiniteSets, TLC

VARIABLES
    args,               \* the arguments of the call (a record, never changed)
    pc,                 \* position of the driver in its code
    err,                \* the exception that ended the call, or "none"
    task,               \* train_cl: loop variable of line 112 (1-based)
    batch_index,        \* train_cl: loop variable of line 179
    y_used,             \* curation: labels the generator gave the pool
    metric,             \* curation: per-candidate selection metric
    indices,            \* curation: pool positions after sort (and shuffle)
    indices_to_replay,  \* curation: pool positions selected for replay
    x,                  \* train_cl: the inputs of the current task's batch
    y,                  \* train_cl: the labels of the current task's batch
    x_,                 \* the replay inputs handed to train_a_batch
    task_used,          \* train_cl: the tasks the replayed samples came from
    y_,                 \* the hard replay targets handed to train_a_batch
    scores_,            \* the soft replay targets handed to train_a_batch
    scores_old,         \* curation: scores of the pool before the trial update
    scores_new,         \* curation: scores of the pool after the trial update
    padded_scores,      \* curation (interfered): scores_old padded with zeros
    Generative,         \* train_cl: line 101, set at line 586
    Current,            \* train_cl: line 101, set at line 589
    Offline_TaskIL,     \* train_cl: line 101, set at line 119
    heap,               \* the networks: object id -> [params, grad, training]
    previous_model,     \* train_cl: reference to the frozen copy, or None
    previous_generator, \* train_cl: reference to the sampling network, or None
    model_tmp,          \* train_cl: reference to the disposable copy, or None
    iters_left,         \* train_cl: batches left on each data-loader
    data_loader,        \* train_cl: each loader's length and batches consumed
    rebuilds,           \* observer: loaders built per slot in the current task
    W,                  \* train_cl: running importance estimates (SI)
    p_old,              \* train_cl: parameter values before the last update
    n_main,             \* observer: model.train_a_batch calls in the current task
    n_gen,              \* observer: generator.train_a_batch calls in the current task
    log,                \* observer: calls made by the last driver step
    iteration,          \* train: line 29
    epoch               \* train: line 29

(***************************************************************************)
(* Bounds of the model.                                                    *)
(***************************************************************************)
MaxPool    == 3     \* batch_size_replay * curated_multiplier <= MaxPool
MaxClasses == 2     \* classes a generator is asked for <= MaxClasses
MaxTasks   == 3     \* len(train_datasets) <= MaxTasks
MaxIters   == 3     \* iters, gen_iters <= MaxIters
MaxData    == 2     \* samples per dataset, batches per train_loader <= MaxData
MaxBatch   == 2     \* batch_size <= MaxBatch
MaxWidth   == 4     \* columns of a score tensor followed entry by entry
MaxEpochs  == 3     \* train: passes over a train_loader that yields nothing

(***************************************************************************)
(* Generic helpers.                                                        *)
(***************************************************************************)
range(n) == [i \in 1..n |-> i - 1]                  \* list(range(n))

Elems(s) == {s[i] : i \in 1..Len(s)}

Take(s, k) == SubSeq(s, 1, IF k < Len(s) THEN k ELSE Len(s))     \* s[:k]

Perms(n) == {p \in [1..n -> 1..n] : \A i, j \in 1..n : i # j => p[i] # p[j]}

Count(s, v) == Cardinality({i \in 1..Len(s) : s[i] = v})

RECURSIVE SortedSeq(_)
SortedSeq(S) ==
    IF S = {} THEN <<>>
    ELSE LET m == CHOOSE v \in S : \A w \in S : v <= w
         IN  <<m>> \o SortedSeq(S \ {m})

RECURSIVE Cat(_)
Cat(ss) == IF ss = <<>> THEN <<>> ELSE Head(ss) \o Cat(Tail(ss))   \* torch.cat

CeilDiv(a, b) == (a + b - 1) \div b                 \* int(np.ceil(a / b))

(***************************************************************************)
(* The sample methods (line 80 and the branches of lines 262-405).         *)
(***************************************************************************)
DirectMethods  == {"softmax", "random", "uniform"}
CuratedMethods == {"curated", "curated_softmax", "curated_variety",
                   "curated_classVariety", "interfered", "misclassified",
                   "uniform_large", "random_large"}
\* a sample_method none of the branches names
Unsupported    == "unsupported"

\* line 255: allowed_classes is None in the domain scenario
allowed_is_None(a) == a.scenario = "domain"

\* allowed classes that include the classes of the running task
allowed_classes_with_current(a, t) == range(a.classes_per_task * t)

\* line 255: list(range(classes_per_task*(task-1)))
allowed_classes(a, t) == range(a.classes_per_task * (t - 1))

\* The classes the previous generator can produce: the allowed ones, and
\* with allowed_classes = None every class its data had.
GeneratorClasses(a, t) ==
    IF allowed_is_None(a) THEN Elems(range(a.classes_per_task))
    ELSE Elems(allowed_classes(a, t))

\* previous_generator.sample(count, allowed_classes=..., uniform_sampling=...):
\* the possible label vectors of the returned candidates.
GeneratorSample(count, classes, uniform_sampling) ==
    {ys \in [1..count -> classes] :
        uniform_sampling =>
            \A c, d \in classes : Count(ys, c) - Count(ys, d) \in {-1, 0, 1}}

\* lines 292-329: the size of the pool and whether it is drawn class-balanced
PoolSize(a) == a.batch_size_replay * a.curated_multiplier

PoolUniform(a) == a.sample_method = "curated_classVariety"

\* lines 361-406: the values of the metric.  Two levels are enough: the order
\* of equal values is not fixed, so every ranking of the pool arises.
MetricValues == {0, 1}

\* lines 361-406: a metric is computed only in the branches of these methods
MetricDefined(a) == a.sample_method \in CuratedMethods

\* the orders of the pool positions with non-decreasing metric
SortAscending(m) ==
    {p \in Perms(Len(m)) : \A i, j \in 1..Len(m) : i < j => m[p[i]] <= m[p[j]]}

\* torch.sort(metric, descending=True)[1]: the orders of the pool positions
\* with non-increasing metric (the order of equal values is not fixed).
SortDescending(m) ==
    {p \in Perms(Len(m)) : \A i, j \in 1..Len(m) : i < j => m[p[i]] >= m[p[j]]}

\* lines 412-415: uniform_large and random_large shuffle the ranked order
Shuffles(a) == a.sample_method \in {"uniform_large", "random_large"}

\* line 417: which methods divide the selection up by class
SkipsBalancing(a) == a.sample_method \in {"random_large", "curated_softmax"}

\* line 420: torch.arange(batch_size_replay) % len(allowed_classes)
uniform_dist(brs, n) == [j \in 1..brs |-> (j - 1) % n]

\* line 421: torch.unique(uniform_dist, return_counts=True)[1], the counts of
\* the distinct values in increasing order of value
counts_each_class(brs, n) ==
    LET u == uniform_dist(brs, n)
        vals == SortedSeq(Elems(u))
    IN  [k \in 1..Len(vals) |-> Count(u, vals[k])]

\* line 430, for one i: indices[y_used[indices]==i][:counts_each_class[i]]
TopOfClass(ind, ys, i, k) == Take(SelectSeq(ind, LAMBDA j : ys[j] = i), k)

\* lines 417-434: the pool positions kept for replay, or the exception raised
SelectReplay(a, t, ys, ind) ==
    IF ~SkipsBalancing(a)
    THEN IF allowed_is_None(a)
         THEN [err |-> "TypeError: len(None)", sel |-> <<>>]     \* line 420
         ELSE LET n == Len(allowed_classes(a, t))
                  cnt == counts_each_class(a.batch_size_replay, n)
              IN  IF n > Len(cnt)
                  THEN [err |-> "IndexError", sel |-> <<>>]   \* counts_each_class[i]
                  ELSE [err |-> "none",
                        sel |-> Cat([i \in 1..n |-> TopOfClass(ind, ys, i - 1, cnt[i])])]
    ELSE [err |-> "none", sel |-> ind]                \* line 434: x_ = x_[indices]

\* x_[indices_to_replay]: the replayed samples, shown by their labels
Gather(ys, sel) == [k \in 1..Len(sel) |-> ys[sel[k]]]


(***************************************************************************)
(* Values and the heap of networks.                                        *)
(***************************************************************************)
None      == 0      \* the reference None
model     == 1      \* the object the argument [model] refers to
generator == 2      \* the object the argument [generator] refers to, if given

NoneVal == [kind |-> "None"]                        \* the value None
Batch(ys) == [kind |-> "batch", ys |-> ys]          \* a tensor of samples
PyList(parts) == [kind |-> "list", parts |-> parts] \* a list of tensors

Ev(op, obj, n) == [op |-> op, obj |-> obj, n |-> n] \* one observed call

\* a freshly constructed network: no optimiser step yet, no gradient yet
NewNet == [params |-> 0, grad |-> 0, training |-> TRUE]

NewId(h) == CHOOSE i \in 1..(Cardinality(DOMAIN h) + 1) : i \notin DOMAIN h

\* copy.deepcopy(o): a new object with the same state
deepcopy(h, o) ==
    LET id == NewId(h)
    IN  [heap |-> [i \in DOMAIN h \cup {id} |-> IF i = id THEN h[o] ELSE h[i]],
         ref  |-> id]

\* o.eval()
eval(h, o) == [h EXCEPT ![o].training = FALSE]

\* o.train_a_batch(...): one optimiser step on o's own parameters, which
\* leaves a gradient on them
train_a_batch(h, o) ==
    [h EXCEPT ![o] = [params |-> @.params + 1, grad |-> -1, training |-> TRUE]]

\* objects no variable refers to any more are dropped
Reachable(h, roots) == [i \in (DOMAIN h) \cap roots |-> h[i]]

\* the generator argument: None when no generator is given
generator_ref(a) == IF a.generator THEN generator ELSE None

(***************************************************************************)
(* Data loaders (lines 122-123, 181-218).                                  *)
(***************************************************************************)
NoLoader == [built |-> FALSE, len |-> 0, pos |-> 0]

\* a driver that starts a task believing a batch is still left on the loader
ItersLeftAtTaskStart_two == 1 + 1

\* line 123: iters_left = 1 (per loader)
ItersLeftAtTaskStart == 1

\* len(utils.get_data_loader(dataset, batch_size, drop_last=True))
LoaderLen(n_samples, batch_size) == n_samples \div batch_size

\* line 116: the dataset trained on in a task, by its number of samples
train_dataset_len(a, t) ==
    IF a.replay_mode = "offline" /\ a.scenario # "task"
    THEN a.dataset_len * t                        \* ConcatDataset(train_datasets[:task])
    ELSE a.dataset_len

\* line 189: batch_size_to_use = int(np.ceil(batch_size/task))
batch_size_to_use(a, t) == CeilDiv(a.batch_size, t)

\* the length of the loader built for slot k of task t (lines 185, 193-195)
SlotLoaderLen(a, t, offline) ==
    IF offline THEN LoaderLen(a.dataset_len, batch_size_to_use(a, t))
    ELSE LoaderLen(train_dataset_len(a, t), a.batch_size)

\* lines 183-186 / 191-196 for one loader: count down, rebuild at zero
StepLoader(il, dl, rb, L) ==
    IF il - 1 = 0
    THEN [il |-> L, dl |-> [built |-> TRUE, len |-> L, pos |-> 0], rb |-> rb + 1]
    ELSE [il |-> il - 1, dl |-> dl, rb |-> rb]

\* next(data_loader): the exception raised, or "none"
NextErr(dl) ==
    IF ~dl.built THEN "TypeError: not an iterator"
    ELSE IF dl.pos >= dl.len THEN "StopIteration"
    ELSE "none"

NextAdvance(dl) == [dl EXCEPT !.pos = @ + 1]

(***************************************************************************)
(* train_cl: the arguments.  [generator] is TRUE when a generator is       *)
(* given; si, ewc, replay_targets and mask_dict are the model's si_c > 0,  *)
(* ewc_lambda > 0, replay_targets and mask_dict is not None;               *)
(* conditional_gen is the generator property of lines 236-239.  A          *)
(* callback list holds callback names, "None" for a None entry.            *)
(***************************************************************************)
Defaults ==
    [fn |-> "train_cl", replay_mode |-> "none", scenario |-> "task",
     classes_per_task |-> 1, iters |-> 1, batch_size |-> 1,
     batch_size_replay |-> 1, loss_cbs |-> <<>>, eval_cbs |-> <<>>,
     sample_cbs |-> <<>>, generator |-> FALSE, gen_iters |-> 0,
     gen_loss_cbs |-> <<>>, feedback |-> FALSE, only_last |-> FALSE,
     sample_method |-> "random", curated_multiplier |-> 1,
     n_tasks |-> 1, dataset_len |-> 1, si |-> FALSE, ewc |-> FALSE,
     replay_targets |-> "hard", mask_dict |-> FALSE,
     conditional_gen |-> FALSE, label |-> "Classifier",
     save_every |-> 0, loader_len |-> 1]

\* model.named_parameters(): the trainable parameters of the model, by the
\* names W and p_old use.  A model labelled "VAE" (line 530), the kind that
\* serves as its own generator with feedback (line 587), has a decoder next
\* to the encoder and the classifier.
named_parameters(a) ==
    {"convE__weight", "fcE__weight", "classifier__weight"}
        \cup (IF a.label = "VAE" THEN {"fcD__weight"} ELSE {})

\* p.data.clone(): the value of a parameter of object o
clone(h, o) == h[o].params

\* a clone that is not zeroed
zero_skipped(t) == t

\* tensor.zero_()
zero_(t) == 0

EmptyFn == [n \in {} |-> 0]

\* the number of iterations with only_last ignored
iters_to_use_every_task(a, t) ==
    IF ~a.generator THEN a.iters
    ELSE IF a.iters >= a.gen_iters THEN a.iters ELSE a.gen_iters

\* lines 152-162: the number of iterations of the task
iters_to_use(a, t) ==
    IF a.only_last /\ t # a.n_tasks THEN 0
    ELSE IF ~a.generator THEN a.iters
    ELSE IF a.iters >= a.gen_iters THEN a.iters ELSE a.gen_iters

\* the state a driver called with arguments a starts in, at position p
InitOf(a, p) ==
    /\ args = a
    /\ pc = p
    /\ err = "none"
    /\ task = 1
    /\ batch_index = 0
    /\ y_used = <<>>
    /\ metric = <<>>
    /\ indices = <<>>
    /\ indices_to_replay = <<>>
    /\ x = NoneVal
    /\ y = NoneVal
    /\ x_ = NoneVal
    /\ task_used = NoneVal
    /\ y_ = NoneVal
    /\ scores_ = NoneVal
    /\ scores_old = NoneVal
    /\ scores_new = NoneVal
    /\ padded_scores = NoneVal
    /\ Generative = FALSE
    /\ Current = FALSE
    /\ Offline_TaskIL = FALSE
    /\ heap = [o \in {model} \cup ({generator_ref(a)} \ {None}) |-> NewNet]
    /\ previous_model = None
    /\ previous_generator = None
    /\ model_tmp = None
    /\ iters_left = <<>>
    /\ data_loader = <<NoLoader>>
    /\ rebuilds = <<>>
    /\ W = EmptyFn
    /\ p_old = EmptyFn
    /\ n_main = 0
    /\ n_gen = 0
    /\ log = <<>>
    /\ iteration = 0
    /\ epoch = 0

\* the state train_cl starts in (lines 98-109)
ClInit(a) == InitOf(a, "task_start")

\* lines 112-176: the head of the task loop
StartTask ==
    /\ args.fn = "train_cl"
    /\ pc = "task_start"
    /\ LET offline == args.replay_mode = "offline" /\ args.scenario = "task"
           slots == IF offline THEN task ELSE 1
       IN  /\ Offline_TaskIL' = (Offline_TaskIL \/ offline)             \* line 119
           /\ data_loader' = IF offline THEN [k \in 1..task |-> NoLoader]
                             ELSE data_loader                           \* line 120
           /\ iters_left' = [k \in 1..slots |-> ItersLeftAtTaskStart]   \* line 123
           /\ rebuilds' = [k \in 1..slots |-> 0]
    /\ IF args.si                                                       \* lines 126-133
       THEN /\ W' = [n \in named_parameters(args) |-> zero_(clone(heap, model))]
            /\ p_old' = [n \in named_parameters(args) |-> clone(heap, model)]
       ELSE UNCHANGED <<W, p_old>>
    /\ n_main' = 0
    /\ n_gen' = 0
    /\ log' = <<>>
    /\ IF iters_to_use(args, task) >= 1                                 \* line 179
       THEN pc' = "collect" /\ batch_index' = 1
       ELSE pc' = "task_end" /\ batch_index' = batch_index
    /\ UNCHANGED <<scores_old, scores_new, padded_scores, args, err, task, y_used, metric, indices, indices_to_replay,
                   x, y, x_, task_used, y_, scores_, Generative, Current, heap,
                   previous_model, previous_generator, model_tmp, iteration,
                   epoch>>

\* an exception that is swallowed: the task goes on to its end
Raise_swallowed(e) ==
    /\ pc' = "task_end"
    /\ err' = e
    /\ UNCHANGED <<scores_old, scores_new, padded_scores, args, task, batch_index, y_used, metric, indices,
                   indices_to_replay, x, y, x_, task_used, y_, scores_,
                   Generative, Current, Offline_TaskIL, heap, previous_model,
                   previous_generator, model_tmp, iters_left, data_loader,
                   rebuilds, W, p_old, n_main, n_gen, log, iteration, epoch>>

\* an exception leaves the call: nothing after the raise is executed
Raise(e) ==
    /\ pc' = "error"
    /\ err' = e
    /\ UNCHANGED <<scores_old, scores_new, padded_scores, args, task, batch_index, y_used, metric, indices,
                   indices_to_replay, x, y, x_, task_used, y_, scores_,
                   Generative, Current, Offline_TaskIL, heap, previous_model,
                   previous_generator, model_tmp, iters_left, data_loader,
                   rebuilds, W, p_old, n_main, n_gen, log, iteration, epoch>>

(***************************************************************************)
(* train_cl: collecting the data of one iteration (lines 181-477).         *)
(***************************************************************************)
RealBatch(t, n) == [kind |-> "real", task |-> t, n |-> n]
Labels(t, n, shift) == [kind |-> "labels", task |-> t, n |-> n, shift |-> shift]
Tensor == [kind |-> "tensor"]
Targets(per_task, slices) ==
    [kind |-> "targets", per_task |-> per_task, slices |-> slices]

\* lines 181-196: every loader counted down, and rebuilt where it reached zero
SteppedLoaders(a, t, offline, il, dl, rb) ==
    [k \in DOMAIN il |->
        StepLoader(il[k], dl[k], rb[k], SlotLoaderLen(a, t, offline))]

\* lines 204, 213: the exception of the first next() that fails, or "none"
FetchErr(st) ==
    IF \E k \in DOMAIN st : NextErr(st[k].dl) # "none"
    THEN LET k == CHOOSE i \in DOMAIN st :
                    /\ NextErr(st[i].dl) # "none"
                    /\ \A j \in DOMAIN st : NextErr(st[j].dl) # "none" => i <= j
         IN  NextErr(st[k].dl)
    ELSE "none"

\* labels left as the dataset holds them
label_shift_none(a, t) == 0

\* line 205: the shift that brings the labels into the task's 'active range'
label_shift(a, t) == IF a.scenario = "task" THEN a.classes_per_task * (t - 1) ELSE 0

\* line 248: batch_size_replay_to_use = int(np.ceil(batch_size_replay / (task-1)))
batch_size_replay_to_use(a, t) == CeilDiv(a.batch_size_replay, t - 1)

\* line 247: the classes of previous task task_id (0-based)
task_classes(a, task_id) ==
    {c \in Elems(range(a.classes_per_task * (task_id + 1))) :
        c >= a.classes_per_task * task_id}

\* lines 236-239 with line 242
PerTaskGeneration(a) == a.conditional_gen /\ a.scenario = "task"

\* lines 262, 305: the methods that score the current batch with previous_model
UsesSoftmaxProbs(a) == a.sample_method \in {"softmax", "curated_softmax"}

\* line 335: newScores_og = model.classify(x_, ...): the network whose scores
\* of the pool give loss_old
loss_old_scorer(pm) == model

\* lines 331-358: the calls of the curation step before the metric, on the
\* pool of [n] candidates, with [tmp] the disposable copy
ScoringCalls(n, tmp, pm) ==
    << Ev("classify", loss_old_scorer(pm), n),   \* line 335: loss_old
       Ev("deepcopy", model, tmp),          \* line 344
       Ev("train_a_batch", tmp, 0),         \* line 346: no replayed data
       Ev("classify", tmp, n) >>            \* line 356: scores_new

\* lines 274-329: previous_generator.sample(count, allowed_classes=...) as
\* observed: the count, and the allowed classes list(range(k)) by their
\* number k (-1 for allowed_classes = None)
SampleCall(a, t, pg, count) ==
    << Ev("sample", pg, count),
       Ev("allowed_classes", pg,
          IF allowed_is_None(a) THEN -1 ELSE Len(allowed_classes(a, t))) >>

\* a curation step that trains the model itself: model_tmp = model
copy_for_curation_alias(h) == [heap |-> h, ref |-> model]

\* line 344: model_tmp = copy.deepcopy(model)
copy_for_curation(h) == deepcopy(h, model)

\* lines 234-434 without a per-task generator: the possible results
\* [err, x_, heap, tmp, log] of sampling (and curating) the replay inputs
SampledReplay(a, t, h, pg, pm) ==
    LET pre == IF UsesSoftmaxProbs(a) THEN <<Ev("classify", pm, a.batch_size)>>
               ELSE <<>>
    IN  IF a.sample_method \in DirectMethods
        THEN {[err |-> "none", x_ |-> Batch(ys), heap |-> h, tmp |-> None,
               log |-> pre \o SampleCall(a, t, pg, a.batch_size_replay)] :
                 ys \in GeneratorSample(a.batch_size_replay, GeneratorClasses(a, t),
                                        a.sample_method = "uniform")}
        ELSE LET d == copy_for_curation(h)
                 h2 == train_a_batch(d.heap, d.ref)
                 lg == pre \o SampleCall(a, t, pg, PoolSize(a))
                           \o ScoringCalls(PoolSize(a), d.ref, pm)
             IN  IF ~MetricDefined(a)
                 THEN {[err |-> "UnboundLocalError", x_ |-> NoneVal, heap |-> h2,
                        tmp |-> d.ref, log |-> lg]}
                 ELSE {LET r == SelectReplay(a, t, ys, ind)
                       IN  [err |-> r.err, x_ |-> Batch(Gather(ys, r.sel)),
                            heap |-> h2, tmp |-> d.ref, log |-> lg] :
                         ys \in GeneratorSample(PoolSize(a), GeneratorClasses(a, t),
                                                PoolUniform(a)),
                         ind \in Perms(PoolSize(a))}

\* lines 242-252: one request per previous task to a conditional generator
PerTaskReplay(a, t, h, pg) ==
    {[err |-> "none", x_ |-> PyList([k \in 1..(t - 1) |-> Batch(f[k])]), heap |-> h,
      tmp |-> None,
      log |-> [k \in 1..(t - 1) |-> Ev("sample", pg, batch_size_replay_to_use(a, t))]] :
        f \in {g \in [1..(t - 1) -> GeneratorSample(batch_size_replay_to_use(a, t),
                                      Elems(range(a.classes_per_task * (t - 1))), FALSE)] :
                 \A k \in 1..(t - 1) : Elems(g[k]) \subseteq task_classes(a, k - 1)}}

\* lines 438-474: the target scores computed by previous_model, as the
\* column ranges <<from, to>> they keep (<<0, -1>>: every column), and the
\* calls made for them
ReplayTargets(a, t, pm, xr) ==
    IF a.scenario \in {"domain", "class"} /\ ~a.mask_dict
    THEN [t |-> Targets(FALSE,
                  << IF a.scenario = "class"
                     THEN <<0, a.classes_per_task * (t - 1)>> ELSE <<0, -1>> >>),
          log |-> <<Ev("classify", pm, 0)>>]
    ELSE [t |-> Targets(TRUE,
                  [k \in 1..(t - 1) |->
                     IF a.scenario = "domain" THEN <<0, -1>>
                     ELSE <<a.classes_per_task * (k - 1), a.classes_per_task * k>>]),
          log |-> IF a.mask_dict
                  THEN Cat([k \in 1..(t - 1) |->
                              <<Ev("apply_XdGmask", pm, k), Ev("classify", pm, k)>>])
                  ELSE IF xr.kind = "list"
                  THEN [k \in 1..(t - 1) |-> Ev("classify", pm, k)]
                  ELSE <<Ev("classify", pm, 0)>>]

\* the objects the driver's variables refer to, model_tmp aside; an object
\* no variable refers to any more is dropped from the heap
Roots == {model, generator_ref(args), previous_model, previous_generator}

\* the current batch replayed in every iteration, the first task included
ReplayOutcomes_eager ==
    {[err |-> "none", x_ |-> RealBatch(task, args.batch_size), heap |-> heap,
      tmp |-> None, log |-> <<>>]}

\* lines 221-434: the possible replay inputs of this iteration
ReplayOutcomes ==
    LET keep == [err |-> "none", x_ |-> NoneVal, heap |-> heap, tmp |-> None,
                 log |-> <<>>]
    IN  IF Offline_TaskIL                                         \* lines 209-218
        THEN {[keep EXCEPT !.x_ = PyList([k \in 1..task |->
                              RealBatch(k, batch_size_to_use(args, task))])]}
        ELSE IF Current                                           \* line 229
        THEN {[keep EXCEPT !.x_ = RealBatch(task,
                              IF args.batch_size_replay < args.batch_size
                              THEN args.batch_size_replay ELSE args.batch_size)]}
        ELSE IF Generative
        THEN IF PerTaskGeneration(args)
             THEN PerTaskReplay(args, task, heap, previous_generator)
             ELSE SampledReplay(args, task, heap, previous_generator, previous_model)
        ELSE {keep}                                               \* line 223

\* lines 438-477: the targets before line 476 keeps one of them
TargetsOf(xr) ==
    IF Generative \/ Current
    THEN ReplayTargets(args, task, previous_model, xr)
    ELSE IF Offline_TaskIL
    THEN [t |-> PyList([k \in 1..task |->
                   Labels(k, batch_size_to_use(args, task),
                          args.classes_per_task * (k - 1))]),     \* line 215
          log |-> <<>>]
    ELSE [t |-> NoneVal, log |-> <<>>]

\* line 476: y_ = y_ if (model.replay_targets=="hard") else None
kept_y_(a, t) == IF a.replay_targets = "hard" THEN t ELSE NoneVal

\* the soft targets kept whatever the target type
kept_scores_always(a, t) == t

\* line 477: scores_ = scores_ if (model.replay_targets=="soft") else None
kept_scores_(a, t) == IF a.replay_targets = "soft" THEN t ELSE NoneVal

\* line 477 reads scores_, which no line has assigned in this mode
ScoresUnbound == Offline_TaskIL /\ args.replay_targets = "soft"

CollectData ==
    /\ args.fn = "train_cl"
    /\ pc = "collect"
    /\ LET st == SteppedLoaders(args, task, Offline_TaskIL, iters_left,
                                data_loader, rebuilds)
       IN  IF FetchErr(st) # "none"
           THEN Raise(FetchErr(st))
           ELSE \E r \in ReplayOutcomes :
                IF r.err # "none" THEN Raise(r.err)
                ELSE IF ScoresUnbound THEN Raise("UnboundLocalError")
                ELSE LET tg == TargetsOf(r.x_)
                     IN  /\ iters_left' = [k \in DOMAIN st |-> st[k].il]
                         /\ data_loader' = [k \in DOMAIN st |-> NextAdvance(st[k].dl)]
                         /\ rebuilds' = [k \in DOMAIN st |-> st[k].rb]
                         /\ x' = IF Offline_TaskIL THEN NoneVal
                                 ELSE RealBatch(task, args.batch_size)
                         /\ y' = IF Offline_TaskIL THEN NoneVal
                                 ELSE Labels(task, args.batch_size,
                                             label_shift(args, task))
                         /\ x_' = r.x_
                         /\ task_used' = IF ~Generative THEN NoneVal
                                         ELSE IF r.x_.kind = "list"
                                         THEN PyList([k \in 1..(task - 1) |-> Tensor])
                                         ELSE Tensor
                         /\ y_' = kept_y_(args, tg.t)                 \* line 476
                         /\ scores_' = kept_scores_(args, tg.t)       \* line 477
                         /\ model_tmp' = IF r.tmp # None THEN r.tmp ELSE model_tmp
                         /\ heap' = Reachable(r.heap, Roots \cup {model_tmp'})
                         /\ log' = r.log \o tg.log
                         /\ pc' = IF batch_index <= args.iters THEN "train_main"
                                  ELSE "train_gen"                    \* line 484
                         /\ UNCHANGED <<scores_old, scores_new, padded_scores, args, err, task, batch_index, y_used, metric,
                                        indices, indices_to_replay, Generative,
                                        Current, Offline_TaskIL, previous_model,
                                        previous_generator, W, p_old, n_main, n_gen,
                                        iteration, epoch>>

(***************************************************************************)
(* train_cl: the two updates of an iteration (lines 484-556).              *)
(***************************************************************************)
\* a loop "for cb in cbs: if cb is not None: cb(...)": the calls, in order
FireCallbacks(op, cbs, n) ==
    SelectSeq([i \in 1..Len(cbs) |-> Ev(op, i, n)], LAMBDA e : cbs[e.obj] # "None")

\* lines 501-521: the parameters whose importance is updated
updated_parameters == {"convE__weight", "fcE__weight", "classifier__weight"}

\* lines 506-507 for one parameter with gradient g, value p and old value po
W_add(w, g, p, po) == w + (0 - g) * (p - po)

\* the eval callbacks fired before the loss callbacks
MainCallbacks_evalFirst(a, bi) ==
    FireCallbacks("eval_cb", a.eval_cbs, bi)
        \o FireCallbacks("loss_cb", a.loss_cbs, bi)

\* lines 487-535, after the update itself: callbacks in the order fired
MainCallbacks(a, bi) ==
    FireCallbacks("loss_cb", a.loss_cbs, bi)
        \o FireCallbacks("eval_cb", a.eval_cbs, bi)
        \o (IF a.label = "VAE" THEN FireCallbacks("sample_cb", a.sample_cbs, bi)
            ELSE <<>>)

TrainMain ==
    /\ args.fn = "train_cl"
    /\ pc = "train_main"
    /\ heap' = train_a_batch(heap, model)                             \* line 487
    /\ n_main' = n_main + 1
    /\ IF args.si                                                     \* lines 500-521
       THEN /\ W' = [n \in DOMAIN W |->
                       IF n \in updated_parameters /\ heap'[model].grad # 0
                       THEN W_add(W[n], heap'[model].grad, clone(heap', model), p_old[n])
                       ELSE W[n]]
            /\ p_old' = [n \in DOMAIN p_old |->
                       IF n \in updated_parameters THEN clone(heap', model)
                       ELSE p_old[n]]
       ELSE UNCHANGED <<W, p_old>>
    /\ log' = log \o <<Ev("train_a_batch", model, batch_index)>>
                  \o MainCallbacks(args, batch_index)
    /\ pc' = "train_gen"
    /\ UNCHANGED <<scores_old, scores_new, padded_scores, args, err, task, batch_index, y_used, metric, indices,
                   indices_to_replay, x, y, x_, task_used, y_, scores_,
                   Generative, Current, Offline_TaskIL, previous_model,
                   previous_generator, model_tmp, iters_left, data_loader,
                   rebuilds, n_gen, iteration, epoch>>

\* lines 538-556, and the step of the loop of line 179
TrainGenerator ==
    /\ args.fn = "train_cl"
    /\ pc = "train_gen"
    /\ IF args.generator /\ batch_index <= args.gen_iters             \* line 539
       THEN /\ heap' = train_a_batch(heap, generator)
            /\ n_gen' = n_gen + 1
            /\ log' = log \o <<Ev("train_a_batch", generator, batch_index)>>
                          \o FireCallbacks("gen_loss_cb", args.gen_loss_cbs, batch_index)
                          \o FireCallbacks("sample_cb", args.sample_cbs, batch_index)
       ELSE UNCHANGED <<heap, n_gen, log>>
    /\ IF batch_index < iters_to_use(args, task)
       THEN pc' = "collect" /\ batch_index' = batch_index + 1
       ELSE pc' = "task_end" /\ batch_index' = batch_index
    /\ UNCHANGED <<scores_old, scores_new, padded_scores, args, err, task, y_used, metric, indices, indices_to_replay,
                   x, y, x_, task_used, y_, scores_, Generative, Current,
                   Offline_TaskIL, previous_model, previous_generator, model_tmp,
                   iters_left, data_loader, rebuilds, W, p_old, n_main,
                   iteration, epoch>>

(***************************************************************************)
(* train_cl: upon finishing each task (lines 559-589).                     *)
(***************************************************************************)
\* a snapshot without the deepcopy: o.eval(), and a second name for o
snapshot_alias(h, o) == [heap |-> eval(h, o), ref |-> o]

\* lines 584, 587: copy.deepcopy(o).eval()
snapshot(h, o) ==
    LET d == deepcopy(h, o)
    IN  [heap |-> eval(d.heap, d.ref), ref |-> d.ref]

\* a driver that takes the snapshot only while there is none
refresh_only_first(h, pm) ==
    IF pm # None THEN [heap |-> h, ref |-> pm] ELSE snapshot(h, model)

\* line 584: previous_model is refreshed whatever it held (pm)
refresh_previous_model(h, pm) == snapshot(h, model)

\* the omega update made before the Fisher estimation
ConsolidationCalls_omegaFirst(a, t) ==
    (IF a.si THEN <<Ev("update_omega", model, t)>> ELSE <<>>)
        \o (IF a.ewc THEN <<Ev("estimate_fisher", model, t)>> ELSE <<>>)

\* lines 567-581: the consolidation calls, in the order made
ConsolidationCalls(a, t) ==
    (IF a.ewc
     THEN (IF a.mask_dict THEN <<Ev("apply_XdGmask", model, t)>> ELSE <<>>)
              \o <<Ev("estimate_fisher", model, t)>>
     ELSE <<>>)
        \o (IF a.si THEN <<Ev("update_omega", model, t)>> ELSE <<>>)

EndTask ==
    /\ args.fn = "train_cl"
    /\ pc = "task_end"
    /\ LET s1 == refresh_previous_model(heap, previous_model)         \* line 584
           gen == args.replay_mode = "generative"
           missing == gen /\ ~args.feedback /\ ~args.generator
           s2 == IF gen /\ ~args.feedback /\ args.generator
                 THEN snapshot(s1.heap, generator)                    \* line 587
                 ELSE [heap |-> s1.heap,
                       ref |-> IF gen /\ args.feedback THEN s1.ref
                               ELSE previous_generator]
           calls == ConsolidationCalls(args, task)
                        \o <<Ev("snapshot", model, s1.ref)>>
       IN  /\ previous_model' = s1.ref
           /\ Generative' = (Generative \/ gen)                       \* line 586
           /\ Current' = (Current \/ args.replay_mode = "current")    \* line 589
           /\ log' = calls
           /\ IF missing
              THEN /\ pc' = "error"
                   /\ err' = "AttributeError"       \* None has no eval(), line 587
                   /\ UNCHANGED <<previous_generator, task>>
              ELSE /\ previous_generator' = s2.ref
                   /\ err' = err
                   /\ IF task < args.n_tasks
                      THEN pc' = "task_start" /\ task' = task + 1
                      ELSE pc' = "done" /\ task' = task
           /\ heap' = Reachable(IF missing THEN s1.heap ELSE s2.heap,
                                {model, generator_ref(args), model_tmp,
                                 previous_model', previous_generator'})
    /\ UNCHANGED <<scores_old, scores_new, padded_scores, args, batch_index, y_used, metric, indices, indices_to_replay,
                   x, y, x_, task_used, y_, scores_, Offline_TaskIL, model_tmp,
                   iters_left, data_loader, rebuilds, W, p_old, n_main, n_gen,
                   iteration, epoch>>

(***************************************************************************)
(* train (lines 11-58).  save_every = 0 stands for save_every = None;      *)
(* data_loader[1] is the iterator of the for-loop of line 34.              *)
(***************************************************************************)
\* the callbacks handed the number of the iteration before
TrainCalls_stale(a, it, ep) ==
    <<Ev("train_a_batch", model, it)>>
        \o FireCallbacks("loss_cb", a.loss_cbs, it - 1)
        \o FireCallbacks("eval_cb", a.eval_cbs, it - 1)

\* lines 39-49: the update and the callbacks of one iteration, in order
TrainCalls(a, it, ep) ==
    <<Ev("train_a_batch", model, it)>>
        \o FireCallbacks("loss_cb", a.loss_cbs, it)
        \o FireCallbacks("eval_cb", a.eval_cbs, it)

\* lines 52-58: the checkpoint after iteration it, if one is saved
Checkpoint(a, it) ==
    IF it # a.iters /\ a.save_every # 0 /\ it % a.save_every = 0
    THEN <<Ev("save_checkpoint", model, it)>>
    ELSE <<>>

\* line 30 and line 34: the while-test, and the start of a pass over the loader.
\* epoch is counted up to MaxEpochs: later passes are not told apart by it.
TrainEpoch ==
    /\ args.fn = "train"
    /\ pc = "tr_while"
    /\ IF iteration < args.iters
       THEN /\ epoch' = IF epoch < MaxEpochs THEN epoch + 1 ELSE MaxEpochs
            /\ data_loader' = <<[built |-> TRUE, len |-> args.loader_len, pos |-> 0]>>
            /\ pc' = "tr_for"
       ELSE /\ pc' = "done"
            /\ UNCHANGED <<epoch, data_loader>>
    /\ UNCHANGED <<scores_old, scores_new, padded_scores, args, err, task, batch_index, y_used, metric, indices,
                   indices_to_replay, x, y, x_, task_used, y_, scores_,
                   Generative, Current, Offline_TaskIL, heap, previous_model,
                   previous_generator, model_tmp, iters_left, rebuilds, W, p_old,
                   n_main, n_gen, log, iteration>>

\* lines 34-58: one batch of the pass, or the end of the pass
TrainBatch ==
    /\ args.fn = "train"
    /\ pc = "tr_for"
    /\ IF NextErr(data_loader[1]) # "none"
       THEN /\ pc' = "tr_while"                     \* the loader is exhausted
            /\ UNCHANGED <<data_loader, iteration, heap, n_main, log>>
       ELSE /\ data_loader' = <<NextAdvance(data_loader[1])>>
            /\ iteration' = iteration + 1                              \* line 35
            /\ heap' = train_a_batch(heap, model)                      \* line 39
            /\ n_main' = n_main + 1
            /\ log' = TrainCalls(args, iteration', epoch)
                          \o Checkpoint(args, iteration')
            /\ pc' = IF iteration' = args.iters THEN "tr_while"        \* break
                     ELSE "tr_for"
    /\ UNCHANGED <<scores_old, scores_new, padded_scores, args, err, task, batch_index, y_used, metric, indices,
                   indices_to_replay, x, y, x_, task_used, y_, scores_,
                   Generative, Current, Offline_TaskIL, previous_model,
                   previous_generator, model_tmp, iters_left, rebuilds, W, p_old,
                   n_gen, epoch>>

\* the state train starts in (lines 21-29)
TrInit(a) == InitOf(a, "tr_while")

(***************************************************************************)
(* The calls explored.  Every family varies the arguments one part of the  *)
(* driver reads and leaves the others at Defaults.                         *)
(***************************************************************************)
CbLists == {<<>>, <<"cb", "None", "cb">>}

Scenarios == {"task", "domain", "class"}

\* pool sizes and class counts the generator is asked for stay in bounds
InBounds(a) ==
    /\ PoolSize(a) <= MaxPool
    /\ a.classes_per_task * (a.n_tasks - 1) <= MaxClasses
    /\ a.sample_method \in DirectMethods => a.curated_multiplier = 1

\* the data loaders: dataset sizes, batch sizes, iterations, tasks
IterArgs ==
    {[Defaults EXCEPT !.replay_mode = rm, !.scenario = sc, !.iters = it,
                      !.n_tasks = nt, !.dataset_len = dl, !.batch_size = bs] :
        rm \in {"none", "current", "offline"}, sc \in {"task", "class"},
        it \in 1..MaxIters, nt \in 1..MaxTasks, dl \in 1..MaxData,
        bs \in 1..MaxBatch}

\* generative replay: sample methods, generators, pools
ReplayArgs ==
    {a \in {[Defaults EXCEPT !.replay_mode = "generative", !.scenario = sc,
                       !.sample_method = sm, !.generator = g,
                       !.gen_iters = IF g THEN 1 ELSE 0,
                       !.feedback = fb, !.n_tasks = nt, !.classes_per_task = cpt,
                       !.batch_size_replay = brs, !.curated_multiplier = mult] :
                sc \in Scenarios,
                sm \in DirectMethods \cup CuratedMethods \cup {Unsupported},
                g \in BOOLEAN, fb \in BOOLEAN, nt \in 1..MaxTasks,
                cpt \in 1..MaxClasses, brs \in 1..MaxPool, mult \in 1..MaxPool} :
        InBounds(a)}

\* curation over several iterations of a task
CurationIterArgs ==
    {a \in {[Defaults EXCEPT !.replay_mode = "generative", !.scenario = "class",
                       !.generator = TRUE, !.gen_iters = 1, !.n_tasks = 2,
                       !.sample_method = sm, !.iters = it,
                       !.curated_multiplier = mult] :
                sm \in CuratedMethods, it \in 1..MaxIters, mult \in 1..MaxPool} :
        InBounds(a)}

\* the replay targets: target type, task masks, conditional generators
TargetArgs ==
    {a \in {[Defaults EXCEPT !.replay_mode = rm, !.scenario = sc,
                       !.generator = TRUE, !.gen_iters = 1, !.n_tasks = nt,
                       !.classes_per_task = cpt, !.batch_size_replay = brs,
                       !.replay_targets = rt, !.mask_dict = md,
                       !.conditional_gen = cg] :
                rm \in {"generative", "current", "offline"}, sc \in Scenarios,
                nt \in 1..MaxTasks, cpt \in 1..MaxClasses, brs \in 1..MaxBatch,
                rt \in {"hard", "soft"}, md \in BOOLEAN, cg \in BOOLEAN} :
        InBounds(a)}

\* regularisation and the iteration counts of model and generator
RegArgs ==
    {[Defaults EXCEPT !.replay_mode = rm, !.generator = g, !.gen_iters = git,
                      !.iters = it, !.n_tasks = nt, !.only_last = ol,
                      !.si = si, !.ewc = ewc] :
        rm \in {"none", "generative"}, g \in BOOLEAN, git \in 0..MaxIters,
        it \in 1..MaxIters, nt \in 1..MaxTasks, ol \in BOOLEAN,
        si \in BOOLEAN, ewc \in BOOLEAN}

\* synaptic intelligence on models with and without a decoder
SIArgs ==
    {[Defaults EXCEPT !.si = TRUE, !.label = lb, !.iters = it, !.n_tasks = nt,
                      !.replay_mode = r.mode, !.generator = r.gen,
                      !.sample_method = r.method] :
        lb \in {"Classifier", "VAE"}, it \in 1..MaxIters, nt \in 1..MaxTasks,
        r \in {[mode |-> "none", gen |-> FALSE, method |-> "random"],
               [mode |-> "generative", gen |-> TRUE,
                method |-> Unsupported]}}

\* the callbacks of train_cl
CallbackArgs ==
    {[Defaults EXCEPT !.generator = g, !.gen_iters = git, !.iters = it,
                      !.n_tasks = 2, !.loss_cbs = lc, !.eval_cbs = ec,
                      !.sample_cbs = sc, !.gen_loss_cbs = gc, !.label = lb] :
        g \in BOOLEAN, git \in 0..MaxIters, it \in 1..MaxIters,
        lc \in CbLists, ec \in CbLists, sc \in CbLists, gc \in CbLists,
        lb \in {"Classifier", "VAE"}}

\* the calls of train
TrainArgs ==
    {[Defaults EXCEPT !.fn = "train", !.iters = it, !.loader_len = ll,
                      !.save_every = se, !.loss_cbs = lc, !.eval_cbs = ec] :
        it \in 0..MaxIters, ll \in 0..MaxData, se \in 0..MaxIters,
        lc \in CbLists, ec \in CbLists}

ArgSpace ==
    IterArgs \cup ReplayArgs \cup CurationIterArgs \cup TargetArgs \cup RegArgs
        \cup SIArgs \cup CallbackArgs \cup TrainArgs

vars == <<args, pc, err, task, batch_index, y_used, metric, indices,
          indices_to_replay, x, y, x_, task_used, y_, scores_, scores_old,
          scores_new, padded_scores, Generative, Current, Offline_TaskIL, heap, previous_model, previous_generator,
          model_tmp, iters_left, data_loader, rebuilds, W, p_old, n_main,
          n_gen, log, iteration, epoch>>

Init == \E a \in ArgSpace : IF a.fn = "train" THEN TrInit(a) ELSE ClInit(a)

Next ==
    \/ StartTask
    \/ CollectData
    \/ TrainMain
    \/ TrainGenerator
    \/ EndTask
    \/ TrainEpoch
    \/ TrainBatch

Spec == Init /\ [][Next]_vars

(***************************************************************************)
(* train on its own (lines 11-58).  train is sequential code: a step that  *)
(* can be taken is taken, which is weak fairness of its loop.              *)
(***************************************************************************)
TrainInit == \E a \in TrainArgs : TrInit(a)

TrainNext == TrainEpoch \/ TrainBatch

SpecTrain == TrainInit /\ [][TrainNext]_vars /\ WF_vars(TrainNext)

(***************************************************************************)
(* The curation step on its own (lines 289-434): one iteration of task 2   *)
(* with generative replay, from the over-generated pool to the replay      *)
(* batch, with the pool, the metric and the ranking kept in the state.     *)
(***************************************************************************)
CurateArgs ==
    {a \in {[Defaults EXCEPT !.fn = "curate", !.replay_mode = "generative",
                       !.generator = TRUE, !.n_tasks = 2, !.scenario = sc,
                       !.sample_method = sm, !.classes_per_task = cpt,
                       !.batch_size_replay = brs, !.curated_multiplier = mult] :
                sc \in Scenarios, sm \in CuratedMethods \cup {Unsupported},
                cpt \in 1..MaxClasses, brs \in 1..MaxPool, mult \in 1..MaxPool} :
        InBounds(a)}

\* the networks after a first task of one iteration (lines 487, 584-587)
AfterTaskOne ==
    LET h1 == train_a_batch([o \in {model, generator} |-> NewNet], model)
        s1 == snapshot(h1, model)
        s2 == snapshot(s1.heap, generator)
    IN  [heap |-> s2.heap, pm |-> s1.ref, pg |-> s2.ref]

\* the state at line 289 of the first iteration of task 2
CurInit ==
    \E a \in CurateArgs :
        /\ args = a
        /\ pc = "cur_generate"
        /\ err = "none"
        /\ task = 2
        /\ batch_index = 1
        /\ y_used = <<>>
        /\ metric = <<>>
        /\ indices = <<>>
        /\ indices_to_replay = <<>>
        /\ x = RealBatch(2, a.batch_size)
        /\ y = Labels(2, a.batch_size, label_shift(a, 2))
        /\ x_ = NoneVal
        /\ task_used = NoneVal
        /\ y_ = NoneVal
        /\ scores_ = NoneVal
        /\ scores_old = NoneVal
        /\ scores_new = NoneVal
        /\ padded_scores = NoneVal
        /\ Generative = TRUE
        /\ Current = FALSE
        /\ Offline_TaskIL = FALSE
        /\ heap = AfterTaskOne.heap
        /\ previous_model = AfterTaskOne.pm
        /\ previous_generator = AfterTaskOne.pg
        /\ model_tmp = None
        /\ iters_left = <<1>>
        /\ data_loader = <<[built |-> TRUE, len |-> 1, pos |-> 1]>>
        /\ rebuilds = <<1>>
        /\ W = EmptyFn
        /\ p_old = EmptyFn
        /\ n_main = 0
        /\ n_gen = 0
        /\ log = <<>>
        /\ iteration = 0
        /\ epoch = 0

\* lines 292-406: generate the pool, score it, compute the metric
CurScore ==
    /\ args.fn = "curate"
    /\ pc = "cur_generate"
    /\ \E ys \in GeneratorSample(PoolSize(args), GeneratorClasses(args, task),
                                 PoolUniform(args)) :
          LET d == copy_for_curation(heap)
          IN  /\ y_used' = ys
              /\ model_tmp' = d.ref
              /\ heap' = Reachable(train_a_batch(d.heap, d.ref),
                                   Roots \cup {model_tmp'})
              /\ log' = SampleCall(args, task, previous_generator, PoolSize(args))
                            \o ScoringCalls(PoolSize(args), d.ref, previous_model)
              /\ IF MetricDefined(args)
                 THEN /\ metric' \in [1..PoolSize(args) -> MetricValues]
                      /\ pc' = "cur_select"
                      /\ err' = err
                 ELSE /\ metric' = metric
                      /\ pc' = "error"
                      /\ err' = "UnboundLocalError"     \* line 409 reads metric
    /\ UNCHANGED <<scores_old, scores_new, padded_scores, args, task, batch_index, indices, indices_to_replay, x, y, x_,
                   task_used, y_, scores_, Generative, Current, Offline_TaskIL,
                   previous_model, previous_generator, iters_left, data_loader,
                   rebuilds, W, p_old, n_main, n_gen, iteration, epoch>>

\* lines 408-434: rank, shuffle, select
CurSelect ==
    /\ args.fn = "curate"
    /\ pc = "cur_select"
    /\ \E sorted \in SortDescending(metric) :
       \E ind \in IF Shuffles(args) THEN Perms(Len(sorted)) ELSE {sorted} :
          LET r == SelectReplay(args, task, y_used, ind)
          IN  /\ indices' = ind
              /\ indices_to_replay' = r.sel
              /\ err' = r.err
              /\ IF r.err = "none"
                 THEN /\ x_' = Batch(Gather(y_used, r.sel))
                      /\ pc' = "cur_done"
                 ELSE /\ x_' = x_
                      /\ pc' = "error"
    /\ UNCHANGED <<scores_old, scores_new, padded_scores, args, task, batch_index, y_used, metric, x, y, task_used, y_,
                   scores_, Generative, Current, Offline_TaskIL, heap,
                   previous_model, previous_generator, model_tmp, iters_left,
                   data_loader, rebuilds, W, p_old, n_main, n_gen, log,
                   iteration, epoch>>

CurNext == CurScore \/ CurSelect

SpecCurate == CurInit /\ [][CurNext]_vars

(***************************************************************************)
(* The zero padding of the interfered policy on its own (lines 389-392),   *)
(* with the score tensors followed entry by entry: a tensor is a sequence  *)
(* of rows, one per candidate of the pool, a row a sequence of columns.    *)
(***************************************************************************)
\* entries of a softmax row (lines 337, 358): positive, never zero
ScoreValues == {1, 2}

\* the number of candidates in the pool
PadRows == {1, 2}

Tensors(n, w) == [1..n -> [1..w -> ScoreValues]]

\* line 336: newScores_og[:, :(classes_per_task * (curTaskID + 1))], curTaskID = task - 2
width_old(a, t) == a.classes_per_task * ((t - 2) + 1)

\* line 357: newScores_og[:, :(classes_per_task * (curTaskID + 2))]
width_new(a, t) == a.classes_per_task * ((t - 2) + 2)

\* m.size(1)
size1(m) == Len(m[1])

\* line 391: torch.zeros_like(m)
zeros_like(m) == [r \in DOMAIN m |-> [c \in DOMAIN m[r] |-> 0]]

\* an assignment to the last k columns
assign_last_columns(p, k, src) ==
    [r \in DOMAIN p |->
        [c \in DOMAIN p[r] |->
            IF c > Len(p[r]) - k THEN src[r][c - (Len(p[r]) - k)] ELSE p[r][c]]]

\* line 392: p[:, :k] = src
assign_columns(p, k, src) ==
    [r \in DOMAIN p |->
        [c \in DOMAIN p[r] |-> IF c <= k THEN src[r][c] ELSE p[r][c]]]

PadArgs ==
    {a \in {[Defaults EXCEPT !.fn = "pad", !.replay_mode = "generative",
                       !.scenario = "class", !.generator = TRUE, !.gen_iters = 1,
                       !.sample_method = "interfered", !.n_tasks = nt,
                       !.classes_per_task = cpt, !.batch_size_replay = n] :
                nt \in 2..MaxTasks, cpt \in 1..MaxClasses, n \in PadRows} :
        width_new(a, a.n_tasks) <= MaxWidth}

\* the state at line 389 of the first iteration of the last task
PadInit ==
    \E a \in PadArgs :
        /\ args = a
        /\ pc = "pad_zeros"
        /\ err = "none"
        /\ task = a.n_tasks
        /\ batch_index = 1
        /\ y_used = <<>>
        /\ metric = <<>>
        /\ indices = <<>>
        /\ indices_to_replay = <<>>
        /\ x = RealBatch(task, a.batch_size)
        /\ y = Labels(task, a.batch_size, label_shift(a, task))
        /\ x_ = NoneVal
        /\ task_used = NoneVal
        /\ y_ = NoneVal
        /\ scores_ = NoneVal
        /\ scores_old \in Tensors(PoolSize(a), width_old(a, task))
        /\ scores_new \in Tensors(PoolSize(a), width_new(a, task))
        /\ padded_scores = NoneVal
        /\ Generative = TRUE
        /\ Current = FALSE
        /\ Offline_TaskIL = FALSE
        /\ heap = [o \in 1..5 |->
                     [params |-> IF o = 5 THEN task ELSE task - 1, grad |-> -1,
                      training |-> o \in {model, generator, 5}]]
        /\ previous_model = 3
        /\ previous_generator = 4
        /\ model_tmp = 5
        /\ iters_left = <<1>>
        /\ data_loader = <<[built |-> TRUE, len |-> 1, pos |-> 1]>>
        /\ rebuilds = <<1>>
        /\ W = EmptyFn
        /\ p_old = EmptyFn
        /\ n_main = 0
        /\ n_gen = 0
        /\ log = <<>>
        /\ iteration = 0
        /\ epoch = 0

\* line 391: padded_scores = torch.zeros_like(scores_new)
PadZeros ==
    /\ args.fn = "pad"
    /\ pc = "pad_zeros"
    /\ padded_scores' = zeros_like(scores_new)
    /\ pc' = "pad_copy"
    /\ UNCHANGED <<scores_old, scores_new, args, err, task, batch_index, y_used,
                   metric, indices, indices_to_replay, x, y, x_, task_used, y_,
                   scores_, Generative, Current, Offline_TaskIL, heap,
                   previous_model, previous_generator, model_tmp, iters_left,
                   data_loader, rebuilds, W, p_old, n_main, n_gen, log,
                   iteration, epoch>>

\* line 392: padded_scores[:, :scores_old.size(1)] = scores_old
PadCopy ==
    /\ args.fn = "pad"
    /\ pc = "pad_copy"
    /\ padded_scores' = assign_columns(padded_scores, size1(scores_old), scores_old)
    /\ pc' = "pad_done"
    /\ UNCHANGED <<scores_old, scores_new, args, err, task, batch_index, y_used,
                   metric, indices, indices_to_replay, x, y, x_, task_used, y_,
                   scores_, Generative, Current, Offline_TaskIL, heap,
                   previous_model, previous_generator, model_tmp, iters_left,
                   data_loader, rebuilds, W, p_old, n_main, n_gen, log,
                   iteration, epoch>>

PadNext == PadZeros \/ PadCopy

SpecPad == PadInit /\ [][PadNext]_vars

(***************************************************************************)
(* C1: after curation the replay batch holds exactly batch_size_replay     *)
(* samples, for every over-generating sample method, every multiplier and  *)
(* every composition of the pool.                                          *)
(***************************************************************************)
C1_ReplayBatchSize ==
    (pc = "cur_done" /\ args.sample_method \in CuratedMethods)
        => Len(x_.ys) = args.batch_size_replay

(***************************************************************************)
(* C2: for every curation policy other than random_large and uniform_large *)
(* the selected batch holds, for each allowed class, a number of samples   *)
(* within 1 of batch_size_replay / len(allowed_classes).                   *)
(***************************************************************************)
C2_BalancedSelection ==
    (/\ pc = "cur_done"
     /\ args.sample_method \in CuratedMethods \ {"random_large", "uniform_large"}
     /\ ~allowed_is_None(args))
        => LET n == Len(allowed_classes(args, task))
           IN  \A c \in Elems(allowed_classes(args, task)) :
                  /\ n * (Count(x_.ys, c) - 1) <= args.batch_size_replay
                  /\ args.batch_size_replay <= n * (Count(x_.ys, c) + 1)

(***************************************************************************)
(* C3: with loaders of L >= 1 batches, next() never meets an exhausted (or *)
(* unbuilt) loader: in every mode each loader is built at the first        *)
(* iteration of a task and again exactly when its L batches are consumed,  *)
(* so after iteration b it has been built ceil(b/L) times and has handed   *)
(* out b - (ceil(b/L)-1)*L batches of the current build.                   *)
(***************************************************************************)
C3_LoaderRebuiltWhenConsumed ==
    LET L == SlotLoaderLen(args, task, Offline_TaskIL)
    IN  /\ err \in {"StopIteration", "TypeError: not an iterator"} => L = 0
        /\ (args.fn = "train_cl" /\ pc \in {"train_main", "train_gen"}) =>
              /\ L >= 1
              /\ DOMAIN data_loader = 1..(IF Offline_TaskIL THEN task ELSE 1)
              /\ \A k \in DOMAIN data_loader :
                    /\ data_loader[k].built
                    /\ data_loader[k].len = L
                    /\ rebuilds[k] = CeilDiv(batch_index, L)
                    /\ data_loader[k].pos = batch_index - (rebuilds[k] - 1) * L
                    /\ iters_left[k] = L - data_loader[k].pos + 1

\* a loader of two batches, in offline task-incremental mode, built a second time
C3_Witness ==
    /\ pc = "train_main"
    /\ Offline_TaskIL
    /\ task >= 2
    /\ \E k \in DOMAIN data_loader :
          data_loader[k].len >= 2 /\ rebuilds[k] >= 2 /\ k >= 2

(***************************************************************************)
(* C4: previous_model is None throughout task 1; throughout task k >= 2 it *)
(* is the copy of the model made at the end of task k-1 (it holds the      *)
(* parameters the model had before the updates of task k); it is replaced  *)
(* only by the step that ends a task, once per task.                       *)
(***************************************************************************)
InTask == args.fn = "train_cl" /\ pc \in {"collect", "train_main", "train_gen", "task_end"}

C4_SnapshotOfPreviousTask ==
    InTask =>
        IF task = 1 THEN previous_model = None
        ELSE /\ previous_model \in DOMAIN heap
             /\ previous_model # model
             /\ heap[previous_model].params = heap[model].params - n_main

C4_SnapshotOncePerTask ==
    [][/\ previous_model' # previous_model => pc = "task_end"
       /\ (args.fn = "train_cl" /\ pc = "task_end")
            => (previous_model' # previous_model
                  /\ Count(log', Ev("snapshot", model, previous_model')) = 1)]_vars

C4_PreviousModel == []C4_SnapshotOfPreviousTask /\ C4_SnapshotOncePerTask

\* the third task, trained on, with the snapshot of the second
C4_Witness ==
    /\ InTask
    /\ task = 3
    /\ n_main >= 1
    /\ heap[previous_model].params >= 2
    /\ heap[previous_model].params < heap[model].params

(***************************************************************************)
(* C5: within a task no step changes the snapshot: neither the updates of  *)
(* the live model nor those of the generator change the parameters (or the *)
(* mode) of the network previous_model refers to.                          *)
(***************************************************************************)
C5_SnapshotIsolation ==
    [][(args.fn = "train_cl" /\ previous_model # None /\ pc # "task_end")
          => /\ previous_model' = previous_model
             /\ heap'[previous_model] = heap[previous_model]
             /\ ~heap[previous_model].training]_vars

\* a task with a snapshot in which both the model and the generator were updated
C5_Witness ==
    /\ args.fn = "train_cl"
    /\ previous_model # None
    /\ n_main >= 1
    /\ n_gen >= 1
    /\ heap[previous_model].params < heap[model].params

(***************************************************************************)
(* C6: collecting the data of an iteration, the curation step included     *)
(* (copy the model, train the copy, re-score the pool), changes neither    *)
(* the live model nor the snapshot; the live model changes only in the     *)
(* main update, by one train_a_batch call.                                 *)
(***************************************************************************)
C6_CurationLeavesModel ==
    [][/\ (args.fn = "train_cl" /\ pc = "collect")
            => /\ heap'[model] = heap[model]
               /\ previous_model # None
                    => heap'[previous_model] = heap[previous_model]
       /\ (args.fn = "train_cl" /\ heap'[model] # heap[model])
            => /\ pc = "train_main"
               /\ n_main' = n_main + 1
               /\ heap'[model].params = heap[model].params + 1]_vars

\* a curation step has run: the disposable copy is one update ahead of the model
C6_Witness ==
    /\ args.fn = "train_cl"
    /\ pc = "train_main"
    /\ args.sample_method \in CuratedMethods
    /\ model_tmp # None
    /\ heap[model_tmp].params = heap[model].params + 1
    /\ x_.kind = "batch"

(***************************************************************************)
(* C7: with synaptic intelligence enabled, at the start of every task W    *)
(* has an all-zero entry for every parameter and p_old holds the           *)
(* parameters' current values, whatever W held at the end of the task      *)
(* before.                                                                 *)
(***************************************************************************)
AtTaskStart ==
    /\ args.fn = "train_cl"
    /\ \/ pc = "collect" /\ batch_index = 1
       \/ pc = "task_end" /\ iters_to_use(args, task) = 0

C7_ImportanceReset ==
    (AtTaskStart /\ args.si) =>
        /\ DOMAIN W = named_parameters(args)
        /\ DOMAIN p_old = named_parameters(args)
        /\ \A n \in named_parameters(args) :
              W[n] = 0 /\ p_old[n] = heap[model].params

\* the start of a task after a task in which W grew
C7_Witness ==
    /\ AtTaskStart
    /\ args.si
    /\ task >= 2
    /\ heap[model].params >= 2

(***************************************************************************)
(* C8: called with replay_mode "generative", feedback False and no         *)
(* generator, train_cl raises before any model.train_a_batch call.         *)
(***************************************************************************)
MissingGenerator(a) ==
    a.fn = "train_cl" /\ a.replay_mode = "generative" /\ ~a.feedback /\ ~a.generator

C8_MissingGeneratorRaisedFirst ==
    MissingGenerator(args) => (n_main = 0 /\ heap[model].params = 0)

(***************************************************************************)
(* C9: called with a sample_method outside the supported set, or with a    *)
(* class-balancing curation policy in the domain scenario, train_cl raises *)
(* before any model.train_a_batch call.                                    *)
(***************************************************************************)
InvalidCombination(a) ==
    /\ a.fn = "train_cl"
    /\ a.replay_mode = "generative"
    /\ ~MissingGenerator(a)
    /\ \/ a.sample_method = Unsupported
       \/ a.scenario = "domain" /\ MetricDefined(a) /\ ~SkipsBalancing(a)

C9_InvalidCombinationRaisedFirst ==
    InvalidCombination(args) => (n_main = 0 /\ heap[model].params = 0)

(***************************************************************************)
(* C10: in train and in train_cl, after a main-model update the calls are  *)
(* train_a_batch, then every non-None loss callback once, in list order,   *)
(* then the eval callbacks; None entries are skipped; an iteration of      *)
(* train_cl without a main-model update fires no loss or eval callback.    *)
(***************************************************************************)
Positions(op) == {i \in 1..Len(log) : log[i].op = op}

MainUpdates == {i \in Positions("train_a_batch") : log[i].obj = model}

\* the log holds the calls of one whole update of the main model
AfterMainUpdate ==
    \/ args.fn = "train_cl" /\ pc = "train_gen" /\ batch_index <= args.iters
    \/ args.fn = "train" /\ pc \in {"tr_for", "tr_while"} /\ iteration >= 1

IterationNumber == IF args.fn = "train" THEN iteration ELSE batch_index

ReplayActive == args.fn = "train_cl" /\ pc = "train_main" /\ (Generative \/ Current)

C11_OneTargetKept ==
    ReplayActive =>
        /\ (y_ # NoneVal) # (scores_ # NoneVal)
        /\ args.replay_targets = "hard" => y_ # NoneVal
        /\ args.replay_targets = "soft" => scores_ # NoneVal

\* soft targets kept for generative replay, per previous task
C11_Witness ==
    /\ ReplayActive
    /\ Generative
    /\ task >= 3
    /\ args.replay_targets = "soft"
    /\ scores_.kind = "targets"
    /\ scores_.per_task
    /\ y_ = NoneVal

(***************************************************************************)
(* C12: in the class scenario with generative replay and no task mask, at  *)
(* every task t >= 2 the generator is asked for the classes                *)
(* 0 .. classes_per_task*(t-1)-1 and nothing else, the replayed samples    *)
(* are of those classes, and the previous model's scores are cut to the    *)
(* same classes_per_task*(t-1) columns before the hard labels are taken.   *)
(***************************************************************************)
ClassReplay ==
    /\ args.fn = "train_cl"
    /\ pc = "train_main"
    /\ Generative
    /\ args.scenario = "class"
    /\ ~args.mask_dict

SeenBefore == args.classes_per_task * (task - 1)

C12_ClassesSeenBefore ==
    ClassReplay =>
        /\ task >= 2
        /\ \A i \in Positions("allowed_classes") : log[i].n = SeenBefore
        /\ Cardinality(Positions("allowed_classes")) = 1
        /\ \A i \in 1..Len(x_.ys) : x_.ys[i] \in 0..(SeenBefore - 1)
        /\ LET tg == IF args.replay_targets = "hard" THEN y_ ELSE scores_
           IN  /\ ~tg.per_task
               /\ tg.slices = << <<0, SeenBefore>> >>

\* task 3 with hard labels over the classes of tasks 1 and 2
C12_Witness ==
    /\ ClassReplay
    /\ task = 3
    /\ SeenBefore >= 2
    /\ args.replay_targets = "hard"
    /\ y_.slices = << <<0, SeenBefore>> >>
    /\ \E i \in 1..Len(x_.ys) : x_.ys[i] = SeenBefore - 1

(***************************************************************************)
(* C13: in the curation step, at every iteration of a task k >= 2, the     *)
(* scores that give loss_old are those of the frozen previous model: the   *)
(* network scoring the pool before the disposable copy is made holds the   *)
(* parameters of the snapshot, also after the live model has been updated  *)
(* within the task.                                                        *)
(***************************************************************************)
C13_LossOldFromSnapshot ==
    (args.fn = "train_cl" /\ pc = "train_main" /\ Generative) =>
        \A i \in Positions("deepcopy") :
            /\ i >= 2
            /\ log[i - 1].op = "classify"
            /\ heap[log[i - 1].obj].params = heap[previous_model].params

(***************************************************************************)
(* C14: with a conditional generator in the task scenario, at task t >= 2  *)
(* there is one request per previous task, no request is for more than     *)
(* ceil(batch_size_replay/(t-1)) samples, and the requests add up to       *)
(* exactly batch_size_replay.                                              *)
(***************************************************************************)
RECURSIVE SumOfRequests(_)
SumOfRequests(I) ==
    IF I = {} THEN 0
    ELSE LET i == CHOOSE j \in I : TRUE
         IN  log[i].n + SumOfRequests(I \ {i})

C14_EvenSplit ==
    (args.fn = "train_cl" /\ pc = "train_main" /\ Generative
        /\ PerTaskGeneration(args)) =>
        /\ Cardinality(Positions("sample")) = task - 1
        /\ \A i \in Positions("sample") :
              log[i].n <= CeilDiv(args.batch_size_replay, task - 1)
        /\ SumOfRequests(Positions("sample")) = args.batch_size_replay

(***************************************************************************)
(* C15: in class-balanced curation the quota of allowed class i is the     *)
(* number of j in 0..batch_size_replay-1 with j mod num_classes = i, also  *)
(* when batch_size_replay < num_classes (quota 0 for i >= batch_size_      *)
(* replay); the selection ends without an index error and takes, of each   *)
(* class, its own quota of the ranked candidates (or all there are).       *)
(***************************************************************************)
Quota(i, brs, n) == Cardinality({j \in 0..(brs - 1) : j % n = i})

BalancedCuration ==
    /\ args.fn = "curate"
    /\ pc \in {"cur_done", "error"}
    /\ MetricDefined(args)
    /\ ~SkipsBalancing(args)
    /\ ~allowed_is_None(args)

C15_ClassQuota ==
    BalancedCuration =>
        LET n == Len(allowed_classes(args, task))
        IN  /\ err = "none"
            /\ pc = "cur_done"
            /\ \A i \in 0..(n - 1) :
                  LET q == Quota(i, args.batch_size_replay, n)
                      have == Count(y_used, i)
                  IN  Count(x_.ys, i) = IF q <= have THEN q ELSE have

(***************************************************************************)
(* C16: for random_large and uniform_large the samples replayed are the    *)
(* first batch_size_replay entries of the shuffled ranking, whatever the   *)
(* labels of the candidates.                                               *)
(***************************************************************************)
C16_FirstOfShuffled ==
    (args.fn = "curate" /\ pc = "cur_done" /\ Shuffles(args)) =>
        /\ indices_to_replay = Take(indices, args.batch_size_replay)
        /\ x_ = Batch(Gather(y_used, Take(indices, args.batch_size_replay)))

(***************************************************************************)
(* C17: with synaptic intelligence enabled, after every update of the main *)
(* model and for every key n of W, W[n] has grown by -grad*(p - p_old[n])  *)
(* of that update (so it holds the sum over the updates of the task), and  *)
(* p_old[n] is the current value of the parameter.                         *)
(***************************************************************************)
C17_ImportanceOfEveryParameter ==
    (args.fn = "train_cl" /\ pc = "train_gen" /\ batch_index <= args.iters
        /\ args.si) =>
        /\ DOMAIN W = named_parameters(args)
        /\ DOMAIN p_old = named_parameters(args)
        /\ \A n \in DOMAIN W :
              /\ p_old[n] = clone(heap, model)
              /\ W[n] = n_main * W_add(0, heap[model].grad, 1, 0)

(***************************************************************************)
(* C18: estimate_fisher (with ewc_lambda > 0) and update_omega (with       *)
(* si_c > 0) are each called exactly once per task, after the last         *)
(* iteration of the task and before the snapshot is taken, in the order    *)
(* estimate_fisher, update_omega, snapshot; neither is called inside the   *)
(* iteration loop, and each is called whether or not the other is enabled. *)
(***************************************************************************)
TaskJustEnded ==
    /\ args.fn = "train_cl"
    /\ Positions("snapshot") # {}

EndedTask == IF pc = "task_start" THEN task - 1 ELSE task

Calls(op) == Cardinality(Positions(op))

C18_ConsolidationAtTaskEnd ==
    /\ (args.fn = "train_cl" /\ pc \in {"collect", "train_main", "train_gen", "task_end"})
          => Positions("estimate_fisher") \cup Positions("update_omega")
                 \cup Positions("snapshot") = {}
    /\ TaskJustEnded =>
          /\ pc \in {"task_start", "done", "error"}
          /\ Calls("estimate_fisher") = IF args.ewc THEN 1 ELSE 0
          /\ Calls("update_omega") = IF args.si THEN 1 ELSE 0
          /\ Calls("snapshot") = 1
          /\ \A i \in Positions("estimate_fisher") \cup Positions("update_omega") :
                log[i].obj = model /\ log[i].n = EndedTask
          /\ \A i \in Positions("estimate_fisher") :
                \A j \in Positions("update_omega") : i < j
          /\ \A i \in Positions("estimate_fisher") \cup Positions("update_omega") :
                \A j \in Positions("snapshot") : i < j

\* the end of the second task, of several iterations, with both enabled
C18_Witness ==
    /\ TaskJustEnded
    /\ args.ewc
    /\ args.si
    /\ EndedTask = 2
    /\ args.iters >= 2
    /\ Calls("estimate_fisher") = 1
    /\ Calls("update_omega") = 1

(***************************************************************************)
(* C19: in train with save_every = s >= 1, a checkpoint is saved after     *)
(* iteration i (1 <= i <= iters) exactly when i mod s = 0.                 *)
(***************************************************************************)
C19_CheckpointCadence ==
    (args.fn = "train" /\ iteration >= 1 /\ args.save_every >= 1) =>
        /\ iteration <= args.iters
        /\ Calls("save_checkpoint") =
               IF iteration % args.save_every = 0 THEN 1 ELSE 0
        /\ \A i \in Positions("save_checkpoint") :
               log[i].obj = model /\ log[i].n = iteration

(***************************************************************************)
(* C20: for the interfered policy, with scores_old of width                *)
(* a = classes_per_task*(task-1) and scores_new of width                   *)
(* b = classes_per_task*task over the same pool, the padded tensor has the *)
(* shape of scores_new, equals scores_old in columns 0..a-1 and is zero in *)
(* columns a..b-1.                                                         *)
(***************************************************************************)
C20_PaddedScores ==
    (args.fn = "pad" /\ pc = "pad_done") =>
        LET a == args.classes_per_task * (task - 1)
            b == args.classes_per_task * task
        IN  /\ DOMAIN padded_scores = DOMAIN scores_new
            /\ \A r \in DOMAIN padded_scores :
                  /\ Len(scores_old[r]) = a
                  /\ Len(scores_new[r]) = b
                  /\ Len(padded_scores[r]) = b
                  /\ \A c \in 1..a : padded_scores[r][c] = scores_old[r][c]
                  /\ \A c \in (a + 1)..b : padded_scores[r][c] = 0

\* two candidates, scores_old of width 2 with unequal entries, scores_new of width 4
C20_Witness ==
    /\ args.fn = "pad"
    /\ pc = "pad_done"
    /\ Len(padded_scores) = 2
    /\ size1(scores_old) = 2
    /\ size1(scores_new) = 4
    /\ scores_old[1] = <<1, 2>>
    /\ scores_old[2] = <<2, 1>>
    /\ padded_scores[1] = <<1, 2, 0, 0>>

(***************************************************************************)
(* C21: when an iteration of task k raises, train_cl ends there: no Fisher *)
(* estimation, no omega update and no snapshot refresh is executed for     *)
(* task k, previous_model stays the snapshot of task k-1 (None for task    *)
(* 1), and no later step changes anything, so W of task k is never folded  *)
(* into the importance buffers.                                            *)
(***************************************************************************)
IterationFailed ==
    /\ args.fn = "train_cl"
    /\ err \notin {"none", "AttributeError"}

C21_StoppedInIteration ==
    IterationFailed =>
        /\ pc = "error"
        /\ Positions("estimate_fisher") \cup Positions("update_omega")
              \cup Positions("snapshot") = {}
        /\ IF task = 1 THEN previous_model = None
           ELSE /\ previous_model \in DOMAIN heap
                /\ previous_model # model
                /\ heap[previous_model].params = heap[model].params - n_main

C21_FatalErrorEndsTask == []C21_StoppedInIteration /\ [][~IterationFailed]_vars

\* the second task fails in an iteration while synaptic intelligence is on
C21_Witness ==
    /\ IterationFailed
    /\ pc = "error"
    /\ args.si
    /\ task = 2
    /\ previous_model # None
    /\ DOMAIN W = named_parameters(args)

(***************************************************************************)
(* C22: for iters >= 1 and a loader of at least one batch per pass, train  *)
(* calls model.train_a_batch exactly iters times and then returns; the     *)
(* loader is restarted, and epoch incremented, whenever a pass ends before *)
(* iters is reached; every update and every callback of it is handed the   *)
(* next iteration number, so each of 1..iters is passed exactly once, in   *)
(* increasing order.                                                       *)
(***************************************************************************)
NonEmptyTrain == args.fn = "train" /\ args.iters >= 1 /\ args.loader_len >= 1

C22_Counts ==
    NonEmptyTrain =>
        /\ n_main = iteration
        /\ iteration <= args.iters
        /\ pc = "done" => iteration = args.iters
        /\ pc = "tr_for"
              => iteration = (epoch - 1) * args.loader_len + data_loader[1].pos
        /\ pc \in {"tr_while", "done"}
              => epoch = CeilDiv(iteration, args.loader_len)

NotNone(cbs) == Cardinality({i \in 1..Len(cbs) : cbs[i] # "None"})

C22_OneIterationPerUpdate ==
    [][(NonEmptyTrain /\ (n_main' # n_main \/ iteration' # iteration))
          => /\ n_main' = n_main + 1
             /\ iteration' = iteration + 1
             /\ Cardinality({i \in 1..Len(log') :
                                log'[i].op = "train_a_batch"}) = 1
             /\ Cardinality({i \in 1..Len(log') : log'[i].op = "loss_cb"})
                   = NotNone(args.loss_cbs)
             /\ Cardinality({i \in 1..Len(log') : log'[i].op = "eval_cb"})
                   = NotNone(args.eval_cbs)
             /\ \A i \in 1..Len(log') :
                   log'[i].op \in {"train_a_batch", "loss_cb", "eval_cb"}
                       => log'[i].n = iteration']_vars

C22_ExactlyItersUpdates ==
    /\ []C22_Counts
    /\ C22_OneIterationPerUpdate
    /\ NonEmptyTrain ~> (pc = "done" /\ n_main = args.iters)

\* three iterations over a loader of two batches: the loader was restarted
C22_Witness ==
    /\ NonEmptyTrain
    /\ pc = "done"
    /\ args.iters = 3
    /\ args.loader_len = 2
    /\ epoch = 2
    /\ n_main = 3
    /\ args.loss_cbs # <<>>
    /\ args.eval_cbs # <<>>
    /\ log[Len(log)].n = 3

(***************************************************************************)
(* C23: in every task of train_cl that runs to its end the main model is   *)
(* updated exactly iters times and a given generator exactly gen_iters     *)
(* times; the loop runs max(iters, gen_iters) iterations (iters without a  *)
(* generator), the k-th main update is made in iteration k <= iters and    *)
(* the k-th generator update in iteration k <= gen_iters.  With only_last  *)
(* no model is updated and no callback fires in a task before the final    *)
(* one.                                                                    *)
(***************************************************************************)
SkippedTask == args.only_last /\ task # args.n_tasks

IterationsOfTask ==
    IF args.generator /\ args.gen_iters > args.iters THEN args.gen_iters
    ELSE args.iters

C23_CountsAtTaskEnd ==
    (args.fn = "train_cl" /\ pc = "task_end") =>
        IF SkippedTask
        THEN n_main = 0 /\ n_gen = 0 /\ log = <<>>
        ELSE /\ n_main = args.iters
             /\ n_gen = IF args.generator THEN args.gen_iters ELSE 0
             /\ IterationsOfTask >= 1 => batch_index = IterationsOfTask

C23_NothingBeforeFinalTask ==
    (args.fn = "train_cl" /\ args.only_last
        /\ (task < args.n_tasks \/ pc = "task_start")) =>
        /\ \A o \in DOMAIN heap : heap[o].params = 0
        /\ pc \in {"task_start", "task_end", "error"}
        /\ \A i \in 1..Len(log) :
              log[i].op \in {"apply_XdGmask", "estimate_fisher",
                             "update_omega", "snapshot"}

C23_UpdateInItsIteration ==
    [][args.fn = "train_cl" =>
         /\ n_main' \notin {n_main, 0}
               => /\ n_main' = batch_index
                  /\ batch_index \in 1..args.iters
                  /\ heap'[model].params = heap[model].params + 1
         /\ n_gen' \notin {n_gen, 0}
               => /\ n_gen' = batch_index
                  /\ batch_index \in 1..args.gen_iters
                  /\ args.generator
                  /\ heap'[generator].params = heap[generator].params + 1
         /\ batch_index' \notin {batch_index, 1}
               => /\ batch_index' = batch_index + 1
                  /\ batch_index' <= IterationsOfTask
                  /\ ~SkippedTask]_vars

RankedMethods == {"curated", "curated_variety", "curated_classVariety",
                  "interfered", "misclassified"}

RankedSelectionMade ==
    /\ args.fn = "curate"
    /\ pc = "cur_done"
    /\ args.sample_method \in RankedMethods

SelectedOfClass(i) == {j \in Elems(indices_to_replay) : y_used[j] = i}

PoolOfClass(i) == {j \in 1..Len(y_used) : y_used[j] = i}

C24_TopRankedOfClass ==
    RankedSelectionMade =>
        LET n == Len(allowed_classes(args, task))
        IN  \A i \in 0..(n - 1) :
               /\ \A s \in SelectedOfClass(i) :
                     \A u \in PoolOfClass(i) \ SelectedOfClass(i) :
                        metric[u] <= metric[s]
               /\ Cardinality(PoolOfClass(i)) < Quota(i, args.batch_size_replay, n)
                     => SelectedOfClass(i) = PoolOfClass(i)
               /\ \A j \in PoolOfClass(i) : Count(indices_to_replay, j) <= 1

\* one class with a candidate left out that ranks below the one selected,
\* another with a single candidate for a quota of two
C24_Witness ==
    /\ RankedSelectionMade
    /\ Len(allowed_classes(args, task)) = 2
    /\ args.batch_size_replay = 3
    /\ Cardinality(PoolOfClass(0)) = 1
    /\ SelectedOfClass(0) = PoolOfClass(0)
    /\ \E s \in SelectedOfClass(1) : \E u \in PoolOfClass(1) \ SelectedOfClass(1) :
          metric[u] < metric[s]

(***************************************************************************)
(* C25: outside offline task-incremental mode every update of task 1 is    *)
(* handed x_ = y_ = scores_ = task_used = None, whatever the replay_mode;  *)
(* Generative and Current are false throughout task 1, change only at the  *)
(* end of task 1, where Generative becomes true iff replay_mode is         *)
(* "generative" and Current iff it is "current"; they are never both true  *)
(* and never go back to false.                                             *)
(***************************************************************************)
AtUpdate == args.fn = "train_cl" /\ pc \in {"train_main", "train_gen"}

C25_NoReplayInTaskOne ==
    /\ (AtUpdate /\ task = 1 /\ ~Offline_TaskIL) =>
          /\ x_ = NoneVal
          /\ y_ = NoneVal
          /\ scores_ = NoneVal
          /\ task_used = NoneVal
    /\ args.fn = "train_cl" =>
          /\ ~(Generative /\ Current)
          /\ (task = 1 /\ pc \in {"task_start", "collect", "train_main",
                                   "train_gen", "task_end"})
                => (~Generative /\ ~Current)
          /\ (task >= 2 \/ pc = "done")
                => /\ Generative = (args.replay_mode = "generative")
                   /\ Current = (args.replay_mode = "current")

C25_FlagsSetAtEndOfTaskOne ==
    [][args.fn = "train_cl" =>
         /\ Generative => Generative'
         /\ Current => Current'
         /\ (Generative' # Generative \/ Current' # Current)
               => /\ pc = "task_end"
                  /\ task = 1
                  /\ Generative' = (args.replay_mode = "generative")
                  /\ Current' = (args.replay_mode = "current")]_vars

C25_ReplayStartsAfterTaskOne == []C25_NoReplayInTaskOne /\ C25_FlagsSetAtEndOfTaskOne

\* an update of task 1 with replay_mode "current": nothing is replayed yet
C25_Witness ==
    /\ AtUpdate
    /\ pc = "train_main"
    /\ task = 1
    /\ ~Offline_TaskIL
    /\ args.replay_mode = "current"
    /\ args.n_tasks >= 2
    /\ batch_index >= 2
    /\ x # NoneVal
    /\ x_ = NoneVal
    /\ ~Current

(***************************************************************************)
(* C26: in the task scenario every real label handed to train_a_batch is   *)
(* re-indexed into the range of its task, label v of task t becoming       *)
(* v - classes_per_task*(t-1): the labels y of the current task where one  *)
(* task is active, the labels y_[t] of every task so far in offline mode.  *)
(* In the domain and class scenarios the labels are handed over unchanged. *)
(***************************************************************************)
LocalShift(t) ==
    IF args.scenario = "task" THEN args.classes_per_task * (t - 1) ELSE 0

C26_LabelsReindexed ==
    AtUpdate =>
        IF Offline_TaskIL
        THEN /\ y = NoneVal
             /\ y_.kind = "list"
             /\ Len(y_.parts) = task
             /\ \A t \in 1..task :
                   /\ y_.parts[t].kind = "labels"
                   /\ y_.parts[t].task = t
                   /\ y_.parts[t].shift = LocalShift(t)
        ELSE /\ y.kind = "labels"
             /\ y.task = task
             /\ y.shift = LocalShift(task)
             /\ y_.kind # "labels"
             /\ y_.kind = "list" => \A k \in 1..Len(y_.parts) :
                                       y_.parts[k].kind # "labels"

\* offline task-IL in its second task: the labels of task 2 are shifted
C26_Witness ==
    /\ AtUpdate
    /\ Offline_TaskIL
    /\ task = 2
    /\ y_.kind = "list"
    /\ y_.parts[1].shift = 0
    /\ y_.parts[2].shift = args.classes_per_task
    /\ args.classes_per_task >= 1

(***************************************************************************)
(* C27: train terminates for every iters >= 0 and every train_loader, a    *)
(* loader that yields no batch included.                                   *)
(***************************************************************************)
C27_TrainTerminates == <>(args.fn = "train" /\ pc = "done")

(***************************************************************************)
(* C28: in offline task-incremental mode, with loaders that hand out their *)
(* batches, no iteration raises: each one reaches the update with x = y =  *)
(* None and with y_ holding one re-indexed label batch per task so far,    *)
(* for replay_targets "hard" and for "soft".                               *)
(***************************************************************************)
OfflineTaskILCall ==
    /\ args.fn = "train_cl"
    /\ args.replay_mode = "offline"
    /\ args.scenario = "task"

LoaderFailure == err \in {"StopIteration", "TypeError: not an iterator"}

C28_OfflineReachesUpdate ==
    OfflineTaskILCall =>
        /\ pc = "error" => LoaderFailure
        /\ AtUpdate =>
              /\ args.replay_targets \in {"hard", "soft"}
              /\ x = NoneVal
              /\ y = NoneVal
              /\ y_.kind = "list"
              /\ Len(y_.parts) = task
              /\ \A t \in 1..task :
                    y_.parts[t] = Labels(t, batch_size_to_use(args, task),
                                         args.classes_per_task * (t - 1))

(***************************************************************************)
(* C29: with only_last a task before the final one changes no training    *)
(* state: it makes no Fisher estimation and no omega update, takes no      *)
(* snapshot and does not activate replay, so the final task starts with    *)
(* previous_model None and with Generative and Current false.              *)
(***************************************************************************)
BeforeFinalTask ==
    /\ args.fn = "train_cl"
    /\ args.only_last
    /\ pc \in {"task_start", "collect", "train_main", "train_gen", "task_end"}
    /\ task < args.n_tasks \/ pc = "task_start"

C29_SkippedTaskChangesNothing ==
    BeforeFinalTask =>
        /\ Positions("estimate_fisher") \cup Positions("update_omega")
              \cup Positions("snapshot") = {}
        /\ previous_model = None
        /\ ~Generative
        /\ ~Current

====
